---------------------------- MODULE Spec2Model ----------------------------
(***************************************************************************)
(* A model of the FastAPI service in app/main.py: the four endpoints       *)
(* /filter, /route, /log-to-sheet and /query, and the helper               *)
(* limit_token_size.  sde-delivery-assignment/app/main.py is a copy of its  *)
(* first 59 lines (limit_token_size and /filter) and is modelled by the    *)
(* same definitions.                                                       *)
(*                                                                         *)
(* Python strings are TLA+ strings (TLC evaluates Len, SubSeq and \o on    *)
(* them); a JSON object is a function from its keys to its values; a       *)
(* DataFrame is a record [columns, rows].  An exception that leaves a      *)
(* handler is the response [raised |-> <exception type>].                  *)
(***************************************************************************)
EXTENDS Integers, Sequences, FiniteSets, TLC

VARIABLES
    files,      \* the file system: path |-> content (a DataFrame or Unparsable)
    sheet,      \* the rows of Formi_Call_Logs.sheet1, oldest first
    now,        \* the clock, in seconds after Midnight
    request,    \* the last request handled
    response,   \* what its handler returned (or raised)
    df,         \* the handler's local DataFrame when it returned
    io,         \* the file-system calls the handler made, in order
    calls       \* every /log-to-sheet request so far with its response

vars == <<files, sheet, now, request, response, df, io, calls>>

----------------------------------------------------------------------------
(* Bounds of the model. *)

MaxTextLen == 5      \* longest text given to limit_token_size
MaxTokens == 3       \* largest max_tokens given to limit_token_size
MaxRows == 2         \* most rows of a data/ table
MaxFilters == 2      \* most entries of additional_filters
MaxAgentRows == 6    \* most rows of a public/agent_directory table
MaxCalls == 3        \* most /log-to-sheet requests in one behaviour

----------------------------------------------------------------------------
(* The values every specification starts from. *)

NoRequest == [endpoint |-> "none"]
NoResponse == [none |-> TRUE]
NoFrame == [columns |-> <<>>, rows |-> <<>>]

----------------------------------------------------------------------------
(* Python str and list primitives. *)

Whitespace == {" ", "\t", "\n"}

Char(s, i) == SubSeq(s, i, i)

Min(a, b) == IF a <= b THEN a ELSE b

Max(a, b) == IF a >= b THEN a ELSE b

\* str.split() with no separator: the maximal runs of non-whitespace.
RECURSIVE SplitFrom(_, _, _, _)
SplitFrom(s, i, cur, acc) ==
    IF i > Len(s)
    THEN IF cur = "" THEN acc ELSE Append(acc, cur)
    ELSE IF Char(s, i) \in Whitespace
         THEN SplitFrom(s, i + 1, "", IF cur = "" THEN acc ELSE Append(acc, cur))
         ELSE SplitFrom(s, i + 1, cur \o Char(s, i), acc)

Split(s) == SplitFrom(s, 1, "", <<>>)

\* sep.join(parts)
RECURSIVE Join(_, _)
Join(parts, sep) ==
    IF Len(parts) = 0 THEN ""
    ELSE IF Len(parts) = 1 THEN parts[1]
    ELSE parts[1] \o sep \o Join(Tail(parts), sep)

\* seq[:n], for any integer n (a negative n counts from the end).
SliceTo(seq, n) ==
    IF n >= 0 THEN SubSeq(seq, 1, Min(n, Len(seq)))
    ELSE SubSeq(seq, 1, Max(Len(seq) + n, 0))

\* needle in haystack
Contains(haystack, needle) ==
    \E i \in 1..(Len(haystack) - Len(needle) + 1) :
        SubSeq(haystack, i, i + Len(needle) - 1) = needle

UpperCase == <<"A", "B", "C", "D", "E", "F", "G", "H", "I", "J", "K", "L", "M",
               "N", "O", "P", "Q", "R", "S", "T", "U", "V", "W", "X", "Y", "Z">>

LowerCase == <<"a", "b", "c", "d", "e", "f", "g", "h", "i", "j", "k", "l", "m",
               "n", "o", "p", "q", "r", "s", "t", "u", "v", "w", "x", "y", "z">>

LowerChar(c) ==
    IF \E k \in 1..26 : UpperCase[k] = c
    THEN LowerCase[CHOOSE k \in 1..26 : UpperCase[k] = c]
    ELSE c

\* str.lower()
RECURSIVE Lower(_)
Lower(s) ==
    IF s = "" THEN "" ELSE LowerChar(Char(s, 1)) \o Lower(SubSeq(s, 2, Len(s)))

----------------------------------------------------------------------------
(* limit_token_size *)

LimitTokenSizeOffByOne(text, max_tokens) ==
    LET tokens == Split(text)
    IN  Join(SliceTo(tokens, max_tokens + 1), " ")

limit_token_size(text, max_tokens) ==
    LET tokens == Split(text)
    IN  Join(SliceTo(tokens, max_tokens), " ")

DefaultMaxTokens == 800

----------------------------------------------------------------------------
(* JSON values and DataFrame cells.  Every value carries its type, so that  *)
(* the string "1" and the number 1 are different values.                    *)

Str(s) == [type |-> "str", s |-> s, n |-> 0]
Num(n) == [type |-> "int", s |-> "", n |-> n]
None == [type |-> "none", s |-> "", n |-> 0]
NaN == [type |-> "nan", s |-> "", n |-> 0]

\* dict.get(key, default)
Get(d, key, default) == IF key \in DOMAIN d THEN d[key] ELSE default

Range(seq) == {seq[i] : i \in 1..Len(seq)}

\* All sequences over S of length at most n.
RECURSIVE SeqsUpTo(_, _)
SeqsUpTo(S, n) ==
    IF n = 0 THEN {<<>>}
    ELSE SeqsUpTo(S, n - 1)
         \cup {Append(q, x) : q \in {r \in SeqsUpTo(S, n - 1) : Len(r) = n - 1}, x \in S}

Digit == <<"0", "1", "2", "3", "4", "5", "6", "7", "8", "9">>

\* str(n) for n >= 0
RECURSIVE Decimal(_)
Decimal(n) == IF n < 10 THEN Digit[n + 1] ELSE Decimal(n \div 10) \o Digit[(n % 10) + 1]

----------------------------------------------------------------------------
(* pandas *)

\* key in df.columns
HasColumn(frame, key) == key.type = "str" /\ key.s \in Range(frame.columns)

CellEqualsAsText(cell, val) ==
    /\ cell.type # "nan"
    /\ (IF cell.type = "int" THEN Decimal(cell.n) ELSE cell.s)
         = (IF val.type = "int" THEN Decimal(val.n) ELSE val.s)

\* One element of the boolean mask df[col] == val: a missing cell equals
\* nothing, and values of different types are unequal.
CellEquals(cell, val) == cell.type # "nan" /\ cell = val

WhereEqualsButLast(frame, col, val) ==
    LET kept == SelectSeq(frame.rows, LAMBDA r : CellEquals(r[col], val))
    IN  [frame EXCEPT !.rows = SubSeq(kept, 1, Len(kept) - 1)]

\* df[df[col] == val]
WhereEquals(frame, col, val) ==
    [frame EXCEPT !.rows = SelectSeq(frame.rows, LAMBDA r : CellEquals(r[col], val))]

RenderCell(cell) ==
    CASE cell.type = "str" -> cell.s
      [] cell.type = "int" -> Decimal(cell.n)
      [] OTHER -> "NaN"

\* df.to_string(index=False).  The padding that aligns the columns is left
\* out: it is whitespace next to whitespace, which split() discards.
to_string(frame) ==
    IF Len(frame.rows) = 0
    THEN "Empty DataFrame\nColumns: [" \o Join(frame.columns, ", ") \o "]\nIndex: []"
    ELSE Join(<<Join(frame.columns, " ")>>
              \o [i \in 1..Len(frame.rows) |->
                    Join([j \in 1..Len(frame.columns) |->
                            RenderCell(frame.rows[i][frame.columns[j]])], " ")],
              "\n")

\* A file's content is a table pandas can parse, or text it cannot.
Csv(frame) == [kind |-> "csv", frame |-> frame, message |-> ""]
Unparsable == [kind |-> "bad", frame |-> NoFrame,
               message |-> "No columns to parse from file"]

\* os.path.exists(path)
Exists(fs, path) == path \in DOMAIN fs

----------------------------------------------------------------------------
(* POST /filter *)

RequiredFieldsReversed == <<"source", "primary_name">>

required_fields == <<"primary_name", "source">>

\* f"data/{source}.csv"
DataPath(source) == "data/" \o source \o ".csv"

NotFoundWithPath(source) == "File " \o DataPath(source) \o " not found"

\* f"File {source}.csv not found"
NotFoundMessage(source) == "File " \o source \o ".csv not found"

\* The handler's outcome: its response, its DataFrame and its file-system calls.
Outcome(resp, frame, trace) == [response |-> resp, df |-> frame, io |-> trace]

\* The loop over additional_filters, from entry i on.
RECURSIVE ApplyFilters(_, _, _)
ApplyFilters(frame, filters, i) ==
    IF i > Len(filters) THEN frame
    ELSE LET f == filters[i]
             col == Get(f, "column_name", None)
             val == Get(f, "value", None)
         IN  ApplyFilters(IF HasColumn(frame, col)
                          THEN WhereEquals(frame, col.s, val)
                          ELSE frame,
                          filters, i + 1)

\* Lines 44-53: the primary_name condition, then the additional filters.
SelectRows(frame, primary_name, filters) ==
    LET first == IF HasColumn(frame, Str("primary_name"))
                 THEN WhereEquals(frame, "primary_name", primary_name)
                 ELSE frame
    IN  ApplyFilters(first, filters, 1)

filter_information(args, fs) ==
    LET missing == {i \in 1..Len(required_fields) : required_fields[i] \notin DOMAIN args}
    IN
    IF missing # {}
    THEN LET field == required_fields[CHOOSE i \in missing : \A j \in missing : i <= j]
         IN  Outcome([error |-> field \o " is required"], NoFrame, <<>>)
    ELSE
    LET primary_name == args["primary_name"]
        source == args["source"]
        filters == Get(args, "additional_filters", <<>>)
        file_path == DataPath(source)
    IN
    IF ~Exists(fs, file_path)
    THEN Outcome([error |-> NotFoundMessage(source)], NoFrame,
                 <<<<"exists", file_path>>>>)
    ELSE IF fs[file_path].kind # "csv"
    THEN Outcome([error |-> "Error reading file: " \o fs[file_path].message], NoFrame,
                 <<<<"exists", file_path>>, <<"read_csv", file_path>>>>)
    ELSE
    LET selected == SelectRows(fs[file_path].frame, primary_name, filters)
        result_str == to_string(selected)
        limited_result == limit_token_size(result_str, DefaultMaxTokens)
    IN  Outcome([filtered_data |-> limited_result], selected,
                <<<<"exists", file_path>>, <<"read_csv", file_path>>>>)

(* The tables and requests /filter is run on. *)

DataRows ==
    {[c \in {"primary_name", "beds"} |-> IF c = "primary_name" THEN pn ELSE beds] :
        pn \in {Str("A"), Str("B"), NaN}, beds \in {Num(1), Num(2)}}

\* The same rows under the header name,beds: a table with no primary_name column.
Renamed(row) == [c \in {"name", "beds"} |-> IF c = "name" THEN row["primary_name"] ELSE row["beds"]]

DataFrames ==
    {[columns |-> <<"primary_name", "beds">>, rows |-> rows] :
        rows \in SeqsUpTo(DataRows, MaxRows)}
    \cup
    {[columns |-> <<"name", "beds">>, rows |-> [i \in 1..Len(rows) |-> Renamed(rows[i])]] :
        rows \in SeqsUpTo(DataRows, MaxRows)}

Conditions ==
    { [k \in {"column_name", "value"} |-> IF k = "column_name" THEN Str("beds") ELSE Num(1)],
      [k \in {"column_name", "value"} |-> IF k = "column_name" THEN Str("beds") ELSE Str("1")],
      [k \in {"column_name", "value"} |-> IF k = "column_name" THEN Str("color") ELSE Str("red")],
      <<>> }

\* One entry of args.
ArgValue(k, pn, src, fl) ==
    CASE k = "primary_name" -> pn
      [] k = "source" -> src
      [] OTHER -> fl

\* The args of the requests: those with both required fields, with and
\* without additional_filters, and those lacking a required field.
FilterArgs ==
    {[k \in keys |-> ArgValue(k, pn, src, fl)] :
        keys \in {{"primary_name", "source"}},
        pn \in {Str("A"), Str("B")},
        src \in {"rooms", "broken", "missing"},
        fl \in {<<>>}}
    \cup
    {[k \in keys |-> ArgValue(k, pn, src, fl)] :
        keys \in {{"primary_name", "source", "additional_filters"}},
        pn \in {Str("A"), Str("B")},
        src \in {"rooms", "broken", "missing"},
        fl \in SeqsUpTo(Conditions, MaxFilters)}
    \cup
    {[k \in keys |-> ArgValue(k, pn, src, fl)] :
        keys \in {{}, {"primary_name"}, {"source"}, {"additional_filters"},
                  {"primary_name", "additional_filters"},
                  {"source", "additional_filters"}},
        pn \in {Str("A")},
        src \in {"rooms", "missing"},
        fl \in {<<>>}}

InitFilter ==
    /\ \E frame \in DataFrames :
         files = [p \in {"data/rooms.csv", "data/broken.csv"} |->
                    IF p = "data/rooms.csv" THEN Csv(frame) ELSE Unparsable]
    /\ \E args \in FilterArgs : request = [endpoint |-> "/filter", args |-> args]
    /\ response = NoResponse
    /\ df = NoFrame
    /\ io = <<>>
    /\ calls = <<>>
    /\ sheet = <<>>
    /\ now = 0

Filter ==
    /\ request.endpoint = "/filter"
    /\ response = NoResponse
    /\ LET out == filter_information(request.args, files)
       IN  /\ response' = out.response
           /\ df' = out.df
           /\ io' = out.io
    /\ UNCHANGED <<files, sheet, now, request, calls>>

NextFilter == Filter

SpecFilter == InitFilter /\ [][NextFilter]_vars

FilterHandled == request.endpoint = "/filter" /\ response # NoResponse

FilterComplete == {"primary_name", "source"} \subseteq DOMAIN request.args

\* C1: a /filter request lacking primary_name or source is answered with
\* "<field> is required" for the first missing field in the order primary_name,
\* source, whatever files exist, and the handler touches no file before that.
C1_MissingFieldIsReported ==
    (FilterHandled /\ ~FilterComplete) =>
        /\ response = [error |-> IF "primary_name" \notin DOMAIN request.args
                                 THEN "primary_name is required"
                                 ELSE "source is required"]
        /\ io = <<>>

\* Both fields are missing and primary_name is the one reported.
C1_Witness ==
    /\ FilterHandled
    /\ DOMAIN request.args = {"additional_filters"}
    /\ response = [error |-> "primary_name is required"]
    /\ io = <<>>

\* The table /filter reads for the request, when there is one.
SourceFrame == files[DataPath(request.args["source"])].frame

FilterReadsTable ==
    /\ FilterHandled
    /\ FilterComplete
    /\ Exists(files, DataPath(request.args["source"]))
    /\ files[DataPath(request.args["source"])].kind = "csv"

\* The conditions of the request whose column the table has, each a pair
\* <<column, value>>.
AppliedConditions ==
    LET fl == Get(request.args, "additional_filters", <<>>)
        cols == Range(SourceFrame.columns)
    IN  (IF "primary_name" \in cols
         THEN {<<"primary_name", request.args["primary_name"]>>} ELSE {})
        \cup {<<fl[i]["column_name"].s, Get(fl[i], "value", None)>> :
                i \in {j \in 1..Len(fl) : /\ "column_name" \in DOMAIN fl[j]
                                          /\ fl[j]["column_name"].s \in cols}}

\* C5: the rows /filter selects are exactly the rows of the table that equal
\* the requested value in every condition whose column the table has, in table
\* order; a condition on an absent column changes nothing and is no error.
C5_FilterIsConjunctionOfEqualities ==
    FilterReadsTable =>
        /\ "filtered_data" \in DOMAIN response
        /\ df.columns = SourceFrame.columns
        /\ df.rows = SelectSeq(SourceFrame.rows,
                               LAMBDA r : \A c \in AppliedConditions : r[c[1]] = c[2])

\* A table with no primary_name column, a condition on an absent column and
\* one on beds that keeps one row of two.
C5_Witness ==
    /\ FilterReadsTable
    /\ SourceFrame.columns = <<"name", "beds">>
    /\ Len(Get(request.args, "additional_filters", <<>>)) = 2
    /\ Get(request.args["additional_filters"][1], "column_name", None) = Str("color")
    /\ Get(request.args["additional_filters"][2], "column_name", None) = Str("beds")
    /\ Len(SourceFrame.rows) = 2
    /\ Len(df.rows) = 1

\* C6: selecting again from the selected rows, with the same primary_name and
\* additional filters, gives the same rows in the same order.
C6_FilterIsIdempotent ==
    FilterReadsTable =>
        SelectRows(df, request.args["primary_name"],
                   Get(request.args, "additional_filters", <<>>)) = df

\* Two rows survive the primary_name condition and a filter on beds.
C6_Witness ==
    /\ FilterReadsTable
    /\ "primary_name" \in Range(SourceFrame.columns)
    /\ Len(Get(request.args, "additional_filters", <<>>)) > 0
    /\ Len(df.rows) = 2

\* C8: with both fields present and no file data/<source>.csv, the response is
\* "File <source>.csv not found"; the handler only tested for the file, read
\* nothing and selected nothing.
C8_MissingFileIsReported ==
    (FilterHandled /\ FilterComplete
        /\ ("data/" \o request.args["source"] \o ".csv") \notin DOMAIN files) =>
        /\ response = [error |-> "File " \o request.args["source"] \o ".csv not found"]
        /\ df = NoFrame
        /\ \A i \in 1..Len(io) : io[i][1] = "exists"

C8_Witness ==
    /\ FilterHandled
    /\ FilterComplete
    /\ request.args["source"] = "missing"
    /\ response = [error |-> "File missing.csv not found"]
    /\ io = <<<<"exists", "data/missing.csv">>>>

----------------------------------------------------------------------------
(* POST /route and POST /query *)

RoutingMapPricingFirst ==
    << [source |-> "activities", keywords |-> <<"activity", "indoor", "outdoor">>],
       [source |-> "pricing", keywords |-> <<"price", "cost", "charges", "rate">>],
       [source |-> "room-information", keywords |-> <<"room", "suite", "deluxe", "guest">>],
       [source |-> "rules", keywords |-> <<"rule", "policy", "checkin", "checkout">>],
       [source |-> "queries", keywords |-> <<"staff", "hire", "help", "housekeeping">>] >>

\* The dict routing_map, in insertion order (the order a dict iterates in).
\* route_query and handle_query each hold a copy of it.
routing_map ==
    << [source |-> "activities", keywords |-> <<"activity", "indoor", "outdoor">>],
       [source |-> "room-information", keywords |-> <<"room", "suite", "deluxe", "guest">>],
       [source |-> "pricing", keywords |-> <<"price", "cost", "charges", "rate">>],
       [source |-> "rules", keywords |-> <<"rule", "policy", "checkin", "checkout">>],
       [source |-> "queries", keywords |-> <<"staff", "hire", "help", "housekeeping">>] >>

known_locations == <<"sterling kodai lake", "sterling holidays">>

\* Python's None where the model holds a str: no source and no location is "".
Nothing == ""

\* The inner loop: the first keyword of the list, from index k on, that
\* occurs in the query.
RECURSIVE AnyKeyword(_, _, _)
AnyKeyword(query, keywords, k) ==
    IF k > Len(keywords) THEN FALSE
    ELSE IF Contains(query, keywords[k]) THEN TRUE
    ELSE AnyKeyword(query, keywords, k + 1)

\* The outer loop over routing_map.items(), from entry i on.
RECURSIVE SelectSource(_, _)
SelectSource(query, i) ==
    IF i > Len(routing_map) THEN Nothing
    ELSE IF AnyKeyword(query, routing_map[i].keywords, 1) THEN routing_map[i].source
    ELSE SelectSource(query, i + 1)

\* next((loc for loc in known_locations if loc in query), None), from index i on
RECURSIVE MatchLocation(_, _)
MatchLocation(query, i) ==
    IF i > Len(known_locations) THEN Nothing
    ELSE IF Contains(query, known_locations[i]) THEN known_locations[i]
    ELSE MatchLocation(query, i + 1)

RoutePrimaryNameFromLocation(matched_location) == matched_location

\* The primary_name /route answers with: the literal of line 101; the
\* location lines 94-96 compute is not used.
RoutePrimaryName(matched_location) == "Sterling_Holidays"

route_query(data) ==
    LET query == Lower(Get(data, "query", ""))
    IN
    IF query = "" THEN [error |-> "Query is required"]
    ELSE
    LET selected_source == SelectSource(query, 1)
    IN
    IF selected_source = Nothing
    THEN [error |-> "Could not determine source from query"]
    ELSE
    LET found == MatchLocation(query, 1)
        matched_location == IF found = Nothing THEN "Sterling_Holidays" ELSE found
    IN  [args |-> [primary_name |-> RoutePrimaryName(matched_location),
                   source |-> selected_source,
                   additional_filters |-> <<>>]]

\* os.path.join("public", "agent_directory", f"{selected_source}.csv")
AgentPath(selected_source) == "public/agent_directory/" \o selected_source \o ".csv"

HeadRows == 5

\* filtered_df.head(5).to_dict(orient="records")
HeadRecords(frame) == SubSeq(frame.rows, 1, Min(HeadRows, Len(frame.rows)))

\* df[df['primary_name'].str.lower() == matched_location]: .str.lower() of a
\* missing cell is missing, and equals nothing.
WhereLowerEquals(frame, matched_location) ==
    [frame EXCEPT !.rows =
        SelectSeq(frame.rows,
                  LAMBDA r : /\ r["primary_name"].type = "str"
                             /\ Lower(r["primary_name"].s) = matched_location)]

handle_query(data, fs) ==
    LET query == Lower(Get(data, "query", ""))
    IN
    IF query = "" THEN Outcome([error |-> "Query is required"], NoFrame, <<>>)
    ELSE
    LET selected_source == SelectSource(query, 1)
    IN
    IF selected_source = Nothing
    THEN Outcome([error |-> "Could not determine data source from query."], NoFrame, <<>>)
    ELSE
    LET matched_location == MatchLocation(query, 1)
        file_path == AgentPath(selected_source)
    IN
    IF ~Exists(fs, file_path)
    THEN Outcome([error |-> selected_source \o ".csv not found."], NoFrame,
                 <<<<"exists", file_path>>>>)
    ELSE IF fs[file_path].kind # "csv"
    THEN Outcome([error |-> "Failed to read CSV: " \o fs[file_path].message], NoFrame,
                 <<<<"exists", file_path>>, <<"read_csv", file_path>>>>)
    ELSE
    LET frame == fs[file_path].frame
        trace == <<<<"exists", file_path>>, <<"read_csv", file_path>>>>
    IN
    IF matched_location # Nothing /\ ~HasColumn(frame, Str("primary_name"))
    THEN \* df['primary_name'] raises; nothing in the handler catches it
         Outcome([raised |-> "KeyError: 'primary_name'"], frame, trace)
    ELSE
    LET filtered_df == IF matched_location # Nothing
                       THEN WhereLowerEquals(frame, matched_location)
                       ELSE frame
    IN
    IF Len(filtered_df.rows) = 0
    THEN Outcome([message |-> "No results found."], filtered_df, trace)
    ELSE Outcome([records |-> HeadRecords(filtered_df)], filtered_df, trace)

(* The directory and requests /route and /query are run on. *)

AgentNames == {Str("Sterling HOLIDAYS"), Str("Sterling Kodai Lake")}

\* A table of public/agent_directory: column id numbers the rows from 1.
AgentFrame(names) ==
    [columns |-> <<"primary_name", "id">>,
     rows |-> [i \in 1..Len(names) |->
                 [c \in {"primary_name", "id"} |->
                    IF c = "primary_name" THEN names[i] ELSE Num(i)]]]

\* The same table under the header name,id.
WithoutPrimaryName(frame) ==
    [columns |-> <<"name", "id">>,
     rows |-> [i \in 1..Len(frame.rows) |->
                 [c \in {"name", "id"} |->
                    IF c = "name" THEN frame.rows[i]["primary_name"] ELSE frame.rows[i]["id"]]]]

\* activities.csv and rules.csv hold the table, room-information.csv holds it
\* without a primary_name column, pricing.csv does not parse, and there is no
\* queries.csv.
AgentDirectory(frame) ==
    [p \in {AgentPath("activities"), AgentPath("rules"),
            AgentPath("room-information"), AgentPath("pricing")} |->
        CASE p = AgentPath("room-information") -> Csv(WithoutPrimaryName(frame))
          [] p = AgentPath("pricing") -> Unparsable
          [] OTHER -> Csv(frame)]

Queries ==
    { "", "xyz", "what is the room rate", "checkin policy", "corporate",
      "Indoor ACTIVITY", "guest checkout", "hire staff",
      "Rules at Sterling Holidays", "outdoor Sterling Kodai Lake",
      "policy sterling holidays or sterling kodai lake",
      "Room in Sterling Holidays", "price at Sterling Holidays",
      "housekeeping help" }

RouterBodies ==
    {<<>>} \cup {[k \in {"query"} |-> q] : q \in Queries}

InitRouter ==
    /\ \E names \in SeqsUpTo(AgentNames, MaxAgentRows) :
         files = AgentDirectory(AgentFrame(names))
    /\ \E endpoint \in {"/route", "/query"}, data \in RouterBodies :
         request = [endpoint |-> endpoint, data |-> data]
    /\ response = NoResponse
    /\ df = NoFrame
    /\ io = <<>>
    /\ calls = <<>>
    /\ sheet = <<>>
    /\ now = 0

Route ==
    /\ request.endpoint = "/route"
    /\ response = NoResponse
    /\ response' = route_query(request.data)
    /\ UNCHANGED <<files, sheet, now, request, df, io, calls>>

Query ==
    /\ request.endpoint = "/query"
    /\ response = NoResponse
    /\ LET out == handle_query(request.data, files)
       IN  /\ response' = out.response
           /\ df' = out.df
           /\ io' = out.io
    /\ UNCHANGED <<files, sheet, now, request, calls>>

NextRouter == Route \/ Query

SpecRouter == InitRouter /\ [][NextRouter]_vars

RouteHandled == request.endpoint = "/route" /\ response # NoResponse

QueryHandled == request.endpoint = "/query" /\ response # NoResponse

\* The lower-cased query of the request.
Lowered == Lower(Get(request.data, "query", ""))

\* The categories in the order they are declared.
DeclaredOrder == <<"activities", "room-information", "pricing", "rules", "queries">>

KeywordsOf(category) ==
    Range((CHOOSE e \in Range(routing_map) : e.source = category).keywords)

\* Some keyword of the category occurs in the lower-cased query.
Triggers(category) == \E w \in KeywordsOf(category) : Contains(Lowered, w)

\* The earliest-declared category with a keyword in the query, when there is one.
FirstTriggered ==
    DeclaredOrder[CHOOSE i \in 1..5 :
        /\ Triggers(DeclaredOrder[i])
        /\ \A j \in 1..(i - 1) : ~Triggers(DeclaredOrder[j])]

\* C3: for a non-empty query, /route selects the earliest-declared category
\* that has a keyword occurring in the lower-cased query.
C3_RouteSelectsFirstDeclaredMatch ==
    (RouteHandled /\ Lowered # "" /\ \E i \in 1..5 : Triggers(DeclaredOrder[i])) =>
        /\ "args" \in DOMAIN response
        /\ response.args.source = FirstTriggered

\* "what is the room rate" holds a keyword of room-information and one of
\* pricing, and gets room-information.
C3_Witness ==
    /\ RouteHandled
    /\ request.data = [k \in {"query"} |-> "what is the room rate"]
    /\ Triggers("room-information")
    /\ Triggers("pricing")
    /\ response.args.source = "room-information"

\* C9: every successful /route response is {"args": {"primary_name":
\* "Sterling_Holidays", "source": c, "additional_filters": []}} with c one of
\* the five categories, whether or not the query names a known location.
C9_RouteResponseShape ==
    (RouteHandled /\ "error" \notin DOMAIN response) =>
        \E c \in Range(DeclaredOrder) :
            response = [args |-> [primary_name |-> "Sterling_Holidays",
                                  source |-> c,
                                  additional_filters |-> <<>>]]

\* A query naming a known location still gets the literal.
C9_Witness ==
    /\ RouteHandled
    /\ Contains(Lowered, "sterling kodai lake")
    /\ response = [args |-> [primary_name |-> "Sterling_Holidays",
                             source |-> "activities",
                             additional_filters |-> <<>>]]

\* The table /query reads for the request, when its category has one.
QueryReadsTable ==
    /\ QueryHandled
    /\ Lowered # ""
    /\ \E i \in 1..5 : Triggers(DeclaredOrder[i])
    /\ AgentPath(FirstTriggered) \in DOMAIN files
    /\ files[AgentPath(FirstTriggered)].kind = "csv"

QueryFrame == files[AgentPath(FirstTriggered)].frame

\* The known location the query names: the first of the list that occurs in it.
DetectedLocation ==
    IF Contains(Lowered, "sterling kodai lake") THEN "sterling kodai lake"
    ELSE IF Contains(Lowered, "sterling holidays") THEN "sterling holidays"
    ELSE Nothing

\* The rows the claim C4 expects: those whose primary_name is the detected
\* location up to case, or all rows when no location is detected.
ExpectedRows ==
    IF DetectedLocation = Nothing THEN QueryFrame.rows
    ELSE SelectSeq(QueryFrame.rows,
                   LAMBDA r : /\ "primary_name" \in DOMAIN r
                              /\ r["primary_name"].type = "str"
                              /\ Lower(r["primary_name"].s) = DetectedLocation)

ExpectedQueryResponse ==
    IF Len(ExpectedRows) = 0 THEN [message |-> "No results found."]
    ELSE [records |-> SubSeq(ExpectedRows, 1, Min(5, Len(ExpectedRows)))]

\* C4: when the category's file exists and parses, /query answers with the
\* first 5 rows whose primary_name is the detected location up to case (all
\* rows when no location is detected), or "No results found." when there are
\* none.
C4_QueryReturnsMatchingRows ==
    QueryReadsTable => response = ExpectedQueryResponse

\* C4 restricted to tables that have a primary_name column.
QueryReturnsMatchingRowsGivenColumn ==
    (QueryReadsTable /\ "primary_name" \in Range(QueryFrame.columns)) =>
        response = ExpectedQueryResponse

\* More than five rows match the location and five are returned.
QueryHeadReached ==
    /\ QueryReadsTable
    /\ DetectedLocation = "sterling holidays"
    /\ Len(ExpectedRows) > 5
    /\ "records" \in DOMAIN response
    /\ Len(response.records) = 5

----------------------------------------------------------------------------
(* POST /log-to-sheet *)

\* datetime.now().strftime("%Y-%m-%d %H:%M:%S"), the clock counting seconds
\* from 2025-01-01 00:00:00 and staying within the first minute.
Strftime(clock) ==
    "2025-01-01 00:00:" \o (IF clock < 10 THEN "0" ELSE "") \o Decimal(clock)

RowDatesSwapped(data, clock) ==
    << Get(data, "call_time", Str(Strftime(clock))),
       Get(data, "phone_number", Str("NA")),
       Get(data, "call_outcome", Str("NA")),
       Get(data, "customer_name", Str("NA")),
       Get(data, "room_name", Str("NA")),
       Get(data, "check_out", Str("NA")),
       Get(data, "check_in", Str("NA")),
       Get(data, "guests", Str("NA")),
       Get(data, "call_summary", Str("NA")) >>

\* Lines 125-135: the row built from the request.
Row(data, clock) ==
    << Get(data, "call_time", Str(Strftime(clock))),
       Get(data, "phone_number", Str("NA")),
       Get(data, "call_outcome", Str("NA")),
       Get(data, "customer_name", Str("NA")),
       Get(data, "room_name", Str("NA")),
       Get(data, "check_in", Str("NA")),
       Get(data, "check_out", Str("NA")),
       Get(data, "guests", Str("NA")),
       Get(data, "call_summary", Str("NA")) >>

\* What the services outside the program do for one request: creds.json
\* loads and authorizes or not, the spreadsheet opens or not, the append is
\* accepted or not.
Services == [creds : BOOLEAN, open : BOOLEAN, append : BOOLEAN]

\* The text of the success message; its first character, the check mark
\* U+2705, is written as its code point.
SuccessMessage == "[U+2705] Call log added successfully"

\* The handler's response and the sheet it leaves.  sheet.append_row either
\* adds the row and returns, or raises and adds nothing.
log_to_google_sheet(data, rows, clock, services) ==
    IF ~services.creds
    THEN \* lines 116-117 stand before the first try
         [response |-> [raised |-> "FileNotFoundError: creds.json"], sheet |-> rows]
    ELSE IF ~services.open
    THEN [response |-> [error |-> "Could not open sheet: Formi_Call_Logs"], sheet |-> rows]
    ELSE
    LET row == Row(data, clock)
    IN
    IF ~services.append
    THEN [response |-> [error |-> "Error appending row: APIError"], sheet |-> rows]
    ELSE [response |-> [message |-> SuccessMessage],
          sheet |-> Append(rows, row)]

(* The requests /log-to-sheet is run on. *)

CallFields == <<"call_time", "phone_number", "call_outcome", "customer_name",
                "room_name", "check_in", "check_out", "guests", "call_summary">>

FullBody ==
    [k \in Range(CallFields) |->
        CASE k = "call_time" -> Str("2024-12-31 23:59:59")
          [] k = "guests" -> Num(2)
          [] OTHER -> Str(k \o "-value")]

LogBodies ==
    { <<>>,
      FullBody,
      [k \in {"phone_number", "check_out"} |-> FullBody[k]],
      [k \in {"call_time", "check_in", "guests"} |-> FullBody[k]] }

InitSheet ==
    /\ files = <<>>
    /\ sheet = <<>>
    /\ now = 0
    /\ request = NoRequest
    /\ response = NoResponse
    /\ df = NoFrame
    /\ io = <<>>
    /\ calls = <<>>

LogToSheet ==
    /\ Len(calls) < MaxCalls
    /\ \E data \in LogBodies, services \in Services :
         LET out == log_to_google_sheet(data, sheet, now, services)
         IN  /\ request' = [endpoint |-> "/log-to-sheet", data |-> data]
             /\ response' = out.response
             /\ sheet' = out.sheet
             /\ calls' = Append(calls, [data |-> data, at |-> now,
                                        response |-> out.response])
    /\ now' = now + 1
    /\ UNCHANGED <<files, df, io>>

NextSheet == LogToSheet

SpecSheet == InitSheet /\ [][NextSheet]_vars

Succeeded(call) == call.response = [message |-> "[U+2705] Call log added successfully"]

\* The row the claim C10 expects for a request: the nine fields in order,
\* "NA" for an absent one, the time of the request for an absent call_time.
ExpectedRow(call) ==
    [k \in 1..9 |->
        IF CallFields[k] \in DOMAIN call.data THEN call.data[CallFields[k]]
        ELSE IF k = 1 THEN Str(Strftime(call.at))
        ELSE Str("NA")]

\* C10: the sheet holds one row for each request that returned the success
\* message, in request order, and none for any other request; each row is the
\* nine fields in the fixed order with "NA" (the current time for call_time)
\* for an absent field.
C10_SheetHoldsSuccessfulCalls ==
    LET ok == SelectSeq(calls, Succeeded)
    IN  /\ Len(sheet) = Len(ok)
        /\ \A i \in 1..Len(ok) : sheet[i] = ExpectedRow(ok[i])

\* A failed request between two successful ones, the second with absent fields.
C10_Witness ==
    /\ Len(calls) = 3
    /\ Succeeded(calls[1])
    /\ "error" \in DOMAIN calls[2].response
    /\ Succeeded(calls[3])
    /\ calls[3].data = <<>>
    /\ Len(sheet) = 2
    /\ sheet[2][1] = Str("2025-01-01 00:00:02")
    /\ sheet[2][9] = Str("NA")

\* C2: no failure leaves a handler as an exception; each is returned as
\* {"error": <message>}.
C2_NoFailureEscapes == "raised" \notin DOMAIN response

----------------------------------------------------------------------------
(* limit_token_size called on its own. *)

Alphabet == {"a", "b", " ", "\n"}

RECURSIVE Texts(_)
Texts(n) ==
    IF n = 0 THEN {""}
    ELSE Texts(n - 1) \cup {t \o c : t \in Texts(n - 1), c \in Alphabet}

TruncateRequests ==
    [endpoint : {"limit_token_size"},
     text : Texts(MaxTextLen),
     max_tokens : (-1)..MaxTokens]

InitTruncate ==
    /\ request \in TruncateRequests
    /\ response = NoResponse
    /\ df = NoFrame
    /\ io = <<>>
    /\ calls = <<>>
    /\ sheet = <<>>
    /\ now = 0
    /\ files = <<>>

CallLimitTokenSize ==
    /\ request.endpoint = "limit_token_size"
    /\ response = NoResponse
    /\ response' = [result |-> limit_token_size(request.text, request.max_tokens)]
    /\ UNCHANGED <<files, sheet, now, request, df, io, calls>>

NextTruncate == CallLimitTokenSize

SpecTruncate == InitTruncate /\ [][NextTruncate]_vars

\* The number of whitespace-delimited tokens of s: the positions where a
\* token starts.
TokenCount(s) ==
    Cardinality({i \in 1..Len(s) :
        /\ Char(s, i) \notin Whitespace
        /\ (i = 1 \/ Char(s, i - 1) \in Whitespace)})

\* s is tokens separated by single spaces and nothing else.
SingleSpaced(s) ==
    /\ \A i \in 1..Len(s) : Char(s, i) \in Whitespace => Char(s, i) = " "
    /\ \A i \in 1..Len(s) :
          Char(s, i) = " " => /\ i > 1 /\ i < Len(s)
                              /\ Char(s, i - 1) # " " /\ Char(s, i + 1) # " "

Truncated ==
    /\ request.endpoint = "limit_token_size"
    /\ "result" \in DOMAIN response

\* C7: for max_tokens >= 0 the result of limit_token_size has
\* min(token_count(text), max_tokens) tokens, they are the first tokens of the
\* text in order, and they are joined by single spaces.
C7_TruncationIsTokenPrefix ==
    (Truncated /\ request.max_tokens >= 0) =>
        LET n == Min(TokenCount(request.text), request.max_tokens)
        IN  /\ TokenCount(response.result) = n
            /\ Split(response.result) = SubSeq(Split(request.text), 1, n)
            /\ SingleSpaced(response.result)

\* A text of three tokens with irregular whitespace cut to two tokens.
C7_Witness ==
    /\ Truncated
    /\ request.text = "a\nb a"
    /\ request.max_tokens = 2
    /\ response.result = "a b"

=============================================================================
